---- MODULE Spec2Model ----
(***************************************************************************)
(* A model of the filesystem-backed clip pipeline of tesla-vision:         *)
(*   src/common.py      file_is_stable (the Stability Gate)                *)
(*   src/processor.py   ingestion scan + intake processing loop            *)
(*   src/gif_worker.py  the job queue's claiming protocol + artifact worker*)
(*   src/ui_app.py      the dashboard's HTTP Basic protection              *)
(*                                                                         *)
(* Directories are functions from file names to contents; a file name is a *)
(* sequence of tokens, so that Path.name.startswith("."), the ".tmp_" and  *)
(* "error_" prefixes and Path.with_suffix can be computed as the code      *)
(* computes them.  Clip names carry an implicit ".mp4".                    *)
(*                                                                         *)
(* Three defects stop the services before their first iteration and are    *)
(* read as the evident intent, because otherwise there is no behaviour to  *)
(* model: common.py:67 "except: FileNotFoundError:" is read as             *)
(* "except FileNotFoundError:"; common.py stops after line 76 (the rest of *)
(* file_is_stable is modelled from the specification); and                 *)
(* gif_worker.py:92-99 passes key= to glob instead of sorted and is read   *)
(* as sorted(glob("*.json"), key=mtime).  Everything that the running      *)
(* program handles per item (for instance video_path.exist() raising       *)
(* AttributeError inside the worker's try block) is modelled as written.   *)
(***************************************************************************)
EXTENDS Integers, Sequences, FiniteSets, TLC

VARIABLES
    source,      \* the TeslaCam tree: source path -> [size, writing]
    inbox,       \* INBOX_DIR: clip name -> content
    processed,   \* PROCESSED_DIR: clip name -> content
    alerts,      \* ALERTS_DIR: alert id -> document, or Empty while being written
    queue,       \* GIF_QUEUE_DIR: job file name -> payload, or Empty
    media,       \* MEDIA_DIR: set of file names
    ppc,         \* processor: position in main()
    seen,        \* processor: the in-memory seen set
    scan,        \* processor: what iterate_new_clips has still to yield
    cur,         \* processor: the clip (source path or intake name) in hand
    size1,       \* file_is_stable: the size first read
    waited,      \* file_is_stable: seconds waited so far
    plist,       \* processor: rest of sorted(INBOX_DIR.glob("*.mp4"))
    palert,      \* processor: the alert dict built for the clip in hand
    nextId,      \* number of alert ids handed out so far, plus one
    crashes,     \* number of process kills so far
    wpc,         \* worker -> position in main()
    wjobs,       \* worker -> jobs (the listing it took)
    wclaimed,    \* worker -> claimed (the path it renamed the job to)
    walert_id,   \* worker -> alert_id, Unbound until first assigned
    wdoc,        \* worker -> the alert dict loaded by update_alert_status
    gate,        \* the Stability Gate exercised on its own: arguments, file, polls
    http,        \* the dashboard: its configuration, the request in hand, the answer
    hist         \* history of events the properties speak about

vars == <<source, inbox, processed, alerts, queue, media, ppc, seen, scan, cur,
          size1, waited, plist, palert, nextId, crashes, wpc, wjobs, wclaimed,
          walert_id, wdoc, gate, http, hist>>

procVars == <<ppc, seen, scan, cur, size1, waited, plist, palert>>
workVars == <<wpc, wjobs, wclaimed, walert_id, wdoc>>
dirVars  == <<inbox, processed, alerts, queue, media>>

----------------------------------------------------------------------------
(* Bounds of the model *)

MaxSize    == 1    \* a clip under write grows up to this many size units
MaxCrashes == 1    \* process kills (processor) explored
MaxAlerts  == 2    \* alert ids handed out

(* Program constants *)

STABLE_SECONDS       == 8      \* file_is_stable's default stable_seconds
POLL_SECONDS         == 2      \* file_is_stable's default poll_seconds
MIN_HITS_PER_CLIP    == 3
CONFIDENCE_THRESHOLD == 35     \* 0.35, in hundredths

KEEP == {0, 1, 2, 3, 4, 5, 7}

Empty   == [empty |-> TRUE]  \* a file opened "w" whose content is not written yet
Unbound == "unbound"         \* a local name that was never assigned
NoPath  == [dir |-> "", name |-> <<>>]

\* uuid.uuid4().hex[:12]: the k-th alert id handed out
AlertId(k) == <<"id1", "id2", "id3", "id4">>[k]


----------------------------------------------------------------------------
(* File names *)

HiddenTokens == {".tmp_", "._"}

\* Path.name.startswith(".")
IsHidden(name) == Head(name) \in HiddenTokens

\* INBOX_DIR / f".tmp_{src.name}"
TmpName(name) == <<".tmp_">> \o name

\* an error-archive that is not distinctly named
ErrorNameSame(name) == name

\* PROCESSED_DIR / f"error_{name}"
ErrorName(name) == <<"error_">> \o name

\* Path.with_suffix: the last suffix is replaced by the given one, which may
\* itself hold several dots
with_suffix(path, suffix) == SubSeq(path, 1, Len(path) - 1) \o suffix

\* a directory as a function: adding, removing, renaming
Put(dir, name, content) ==
    [n \in DOMAIN dir \cup {name} |-> IF n = name THEN content ELSE dir[n]]

Remove(dir, name) == [n \in DOMAIN dir \ {name} |-> dir[n]]

\* os.rename / os.replace within one directory: the target is overwritten
Rename(dir, from, to) == Put(Remove(dir, from), to, dir[from])

EmptyDir == [n \in {} |-> Empty]

----------------------------------------------------------------------------
(* The source tree and what the detector sees in each clip *)

ClipA   == [dir |-> "RecentClips", name |-> <<"a">>]
ClipB   == [dir |-> "RecentClips", name |-> <<"b">>]
ClipB2  == [dir |-> "SavedClips", name |-> <<"b">>]
ClipC   == [dir |-> "SentryClips", name |-> <<"c">>]
ClipDot == [dir |-> "RecentClips", name |-> <<"._", "a">>]

\* the order in which root.rglob("*.mp4") yields the clips that are there
ClipOrder == <<ClipA, ClipDot, ClipB, ClipB2, ClipC>>

Source == {ClipOrder[i] : i \in 1..Len(ClipOrder)}

\* model(frame) over the sampled frames: <<class_id, confidence>> per box.
\* Clip a shows four qualifying boxes, clip b three, clip c one.
Boxes(path) ==
    CASE path.name = <<"a">> ->
           <<<<0, 90>>, <<2, 35>>, <<6, 99>>, <<2, 80>>, <<7, 34>>, <<5, 36>>>>
      [] path.name = <<"b">> ->
           <<<<1, 35>>, <<8, 70>>, <<3, 60>>, <<4, 40>>>>
      [] OTHER ->
           <<<<2, 34>>, <<0, 50>>, <<9, 95>>, <<6, 90>>>>

----------------------------------------------------------------------------
(* common.py: file_is_stable *)

\* path.stat() raising FileNotFoundError
Missing == -1

\* path.stat().st_size of a clip of the source tree
StatSize(path) == IF path \in DOMAIN source THEN source[path].size ELSE Missing

\* lines 65-68: the first read; FALSE means "return False"
FirstReadOk(reading) == reading # Missing

\* a loop that takes one re-poll too many
LoopCondInclusive(w, stable_seconds) == w <= stable_seconds

\* line 71: while waited < stable_seconds
LoopCond(w, stable_seconds) == w < stable_seconds

\* lines 72-73: time.sleep(poll_seconds); waited += poll_seconds
AfterSleep(w, poll_seconds) == w + poll_seconds

\* the rest of the loop body, which common.py does not hold: the re-read
\* raising FileNotFoundError returns False, and so does a size that differs
\* from the one first read
PollOk(first, reading) == reading # Missing /\ reading = first

\* lines 65-71: what follows the first read: "false" and "true" are the
\* value returned, "poll" is another turn of the loop
GateAfterFirst(reading, stable_seconds) ==
    IF ~FirstReadOk(reading) THEN "false"
    ELSE IF LoopCond(0, stable_seconds) THEN "poll"
    ELSE "true"

\* lines 71-76 and the rest of the loop: what follows a re-read
GateAfterPoll(first, reading, w, stable_seconds) ==
    IF ~PollOk(first, reading) THEN "false"
    ELSE IF LoopCond(w, stable_seconds) THEN "poll"
    ELSE "true"

GateIdle ==
    [pc |-> "idle", stable |-> 0, poll |-> 0, file |-> Missing, size1 |-> 0,
     waited |-> 0, obs |-> <<>>, result |-> "none"]

----------------------------------------------------------------------------
(* The external writer of the source tree (the car) *)

WriterGrow(c) ==
    /\ source[c].writing
    /\ source[c].size < MaxSize
    /\ source' = [source EXCEPT ![c].size = @ + 1]
    /\ UNCHANGED <<dirVars, procVars, workVars, nextId, crashes, gate, http, hist>>

WriterClose(c) ==
    /\ source[c].writing
    /\ source' = [source EXCEPT ![c].writing = FALSE]
    /\ hist' = [hist EXCEPT !.c8[c] = "closed"]
    /\ UNCHANGED <<dirVars, procVars, workVars, nextId, crashes, gate, http>>

----------------------------------------------------------------------------
(* processor.py: the ingestion scan, main() lines 217-231 and            *)
(* safe_copy_to_inbox                                                      *)

\* iterate_new_clips: what root.rglob("*.mp4") yields
InTree(c) == c \in DOMAIN source

Tree == SelectSeq(ClipOrder, InTree)

\* a copy written straight under the final name
CopyTargetFinal(name) == name

\* line 94: the name the copy is written to
CopyTarget(name) == TmpName(name)

\* an ingestion without the "skip if destination exists" rule
DestExistsNever(name) == FALSE

\* line 90: dest.exists()
DestExists(name) == name \in DOMAIN inbox

\* line 227: the clip is put in the seen set before it is examined
SeenAfterLook(clip) == seen \cup {clip}

\* what shutil.copy2 has written when it returns
CopyOf(path) == [src |-> path, bytes |-> source[path].size, whole |-> TRUE]

\* a move in place of a copy
SourceAfterMove(path) == Remove(source, path)

\* line 95: shutil.copy2 reads the source clip and leaves it where it is
SourceAfterCopy(path) == source

\* what is on disk while shutil.copy2 is still writing
PartialCopyOf(path) == [src |-> path, bytes |-> 0, whole |-> FALSE]

\* lines 86-89: not stable, return None; stable, go on to the copy
AfterGate(outcome) ==
    CASE outcome = "false" -> "ingest_next"
      [] outcome = "poll"  -> "gate_poll"
      [] outcome = "true"  -> "copy_begin"

\* main() lines 207-219: the processor's locals at process start
PStart ==
    /\ ppc = "start"
    /\ ppc' = "scan_begin"
    /\ seen' = {}
    /\ UNCHANGED <<source, dirVars, scan, cur, size1, waited, plist, palert,
                   workVars, nextId, crashes, gate, http, hist>>

\* line 223: for clip in iterate_new_clips(TESLACAM_DIR)
PScanBegin ==
    /\ ppc = "scan_begin"
    /\ ppc' = "ingest_next"
    /\ scan' = Tree
    /\ hist' = [hist EXCEPT !.c8 =
                  [c \in Source |-> IF @[c] = "closed" THEN "scanning" ELSE @[c]]]
    /\ UNCHANGED <<source, dirVars, seen, cur, size1, waited, plist, palert,
                   workVars, nextId, crashes, gate, http>>

\* the generator is exhausted: on to the processing step
PScanEnd ==
    /\ ppc = "ingest_next"
    /\ scan = <<>>
    /\ ppc' = "list_inbox"
    /\ hist' = [hist EXCEPT !.c8 =
                  [c \in Source |-> IF @[c] = "scanning" THEN "scanned" ELSE @[c]]]
    /\ UNCHANGED <<source, dirVars, seen, scan, cur, size1, waited, plist, palert,
                   workVars, nextId, crashes, gate, http>>

\* lines 225-226: if key in seen: continue
PSkipSeen ==
    /\ ppc = "ingest_next"
    /\ scan # <<>>
    /\ Head(scan) \in seen
    /\ scan' = Tail(scan)
    /\ UNCHANGED <<source, dirVars, ppc, seen, cur, size1, waited, plist, palert,
                   workVars, nextId, crashes, gate, http, hist>>

\* lines 227-229 and 83-84: seen.add(key), then a dotfile is ignored
PSkipHidden ==
    /\ ppc = "ingest_next"
    /\ scan # <<>>
    /\ Head(scan) \notin seen
    /\ IsHidden(Head(scan).name)
    /\ seen' = SeenAfterLook(Head(scan))
    /\ scan' = Tail(scan)
    /\ UNCHANGED <<source, dirVars, ppc, cur, size1, waited, plist, palert,
                   workVars, nextId, crashes, gate, http, hist>>

\* lines 227-229 and 86: seen.add(key), then file_is_stable(src) is entered
PConsider ==
    /\ ppc = "ingest_next"
    /\ scan # <<>>
    /\ Head(scan) \notin seen
    /\ ~IsHidden(Head(scan).name)
    /\ seen' = SeenAfterLook(Head(scan))
    /\ scan' = Tail(scan)
    /\ cur' = Head(scan)
    /\ ppc' = "gate_first"
    /\ UNCHANGED <<source, dirVars, size1, waited, plist, palert,
                   workVars, nextId, crashes, gate, http, hist>>

\* file_is_stable lines 65-70: the first read
PGateFirst ==
    /\ ppc = "gate_first"
    /\ size1' = StatSize(cur)
    /\ waited' = 0
    /\ ppc' = AfterGate(GateAfterFirst(StatSize(cur), STABLE_SECONDS))
    /\ UNCHANGED <<source, dirVars, seen, scan, cur, plist, palert,
                   workVars, nextId, crashes, gate, http, hist>>

\* file_is_stable lines 71-76 and the rest of the loop: one sleep and re-read
PGatePoll ==
    /\ ppc = "gate_poll"
    /\ waited' = AfterSleep(waited, POLL_SECONDS)
    /\ ppc' = AfterGate(GateAfterPoll(size1, StatSize(cur), waited', STABLE_SECONDS))
    /\ UNCHANGED <<source, dirVars, seen, scan, cur, size1, plist, palert,
                   workVars, nextId, crashes, gate, http, hist>>

\* lines 89-92: the clip is already in intake
PCopySkip ==
    /\ ppc = "copy_begin"
    /\ DestExists(cur.name)
    /\ ppc' = "ingest_next"
    /\ hist' = [hist EXCEPT !.dedup = @ \cup {cur}]
    /\ UNCHANGED <<source, dirVars, seen, scan, cur, size1, waited, plist, palert,
                   workVars, nextId, crashes, gate, http>>

\* lines 94-95: shutil.copy2 opens the target and starts writing
PCopyBegin ==
    /\ ppc = "copy_begin"
    /\ ~DestExists(cur.name)
    /\ inbox' = Put(inbox, CopyTarget(cur.name), PartialCopyOf(cur))
    /\ ppc' = "copy_data"
    /\ UNCHANGED <<source, processed, alerts, queue, media, seen, scan, cur, size1,
                   waited, plist, palert, workVars, nextId, crashes, gate, http, hist>>

\* line 95: shutil.copy2 returns
PCopyData ==
    /\ ppc = "copy_data"
    /\ inbox' = Put(inbox, CopyTarget(cur.name), CopyOf(cur))
    /\ source' = SourceAfterCopy(cur)
    /\ ppc' = "copy_rename"
    /\ UNCHANGED <<processed, alerts, queue, media, seen, scan, cur, size1,
                   waited, plist, palert, workVars, nextId, crashes, gate, http, hist>>

\* line 96: temporary.rename(dest)
PCopyRename ==
    /\ ppc = "copy_rename"
    /\ inbox' = Rename(inbox, CopyTarget(cur.name), cur.name)
    /\ ppc' = "ingest_next"
    /\ hist' = [hist EXCEPT !.ingested = @ \cup {cur},
                            !.overwrote = @ \/ (cur.name \in DOMAIN inbox
                                                 /\ CopyTarget(cur.name) # cur.name)]
    /\ UNCHANGED <<source, processed, alerts, queue, media, seen, scan, cur, size1,
                   waited, plist, palert, workVars, nextId, crashes, gate, http>>

----------------------------------------------------------------------------
(* processor.py: the processing step, main() lines 233-272 *)

\* the order of the tokens as Python orders the strings they stand for
TokenRank(t) ==
    CASE t = "._" -> 0 [] t = ".tmp_" -> 1 [] t = "a" -> 2 [] t = "b" -> 3
      [] t = "c" -> 4 [] OTHER -> 5

RECURSIVE NameLess(_, _)
NameLess(x, y) ==
    IF x = <<>> THEN y # <<>>
    ELSE IF y = <<>> THEN FALSE
    ELSE IF Head(x) = Head(y) THEN NameLess(Tail(x), Tail(y))
    ELSE TokenRank(Head(x)) < TokenRank(Head(y))

\* sorted(INBOX_DIR.glob("*.mp4")): pathlib's "*" matches dotfiles too
RECURSIVE SortedNames(_)
SortedNames(S) ==
    IF S = {} THEN <<>>
    ELSE LET m == CHOOSE x \in S : \A y \in S \ {x} : NameLess(x, y)
         IN <<m>> \o SortedNames(S \ {m})

InboxListing == SortedNames(DOMAIN inbox)

\* detect_hits line 171
Qualifies(box) == box[1] \in KEEP /\ box[2] >= CONFIDENCE_THRESHOLD

\* sample_frames yields nothing for a file cv2 cannot open
FramesOf(content) == IF content.whole THEN Boxes(content.src) ELSE <<>>

\* detect_hits: the hits of a clip
detect_hits(content) == SelectSeq(FramesOf(content), Qualifies)

RECURSIVE MaxConf(_)
MaxConf(hits) ==
    IF hits = <<>> THEN 0
    ELSE LET m == MaxConf(Tail(hits)) IN IF Head(hits)[2] > m THEN Head(hits)[2] ELSE m

\* an alert rule without the minimum hit count
AlertRuleAnyHit(hits) == hits # <<>>

\* line 241: the alert rule; best_frame is not None once there is a hit
AlertRule(hits) == Len(hits) >= MIN_HITS_PER_CLIP /\ hits # <<>>

\* int(time.time()) when the alert is built
Times == {1000}

\* lines 247-256
NewAlert(id, name, hits, t) ==
    [id |-> id, timestamp |-> t, source_file |-> name, score |-> MaxConf(hits),
     hits |-> hits, jpeg |-> <<id, "jpg">>, gif |-> <<id, "gif">>,
     status |-> "gif_queued"]

NoAlert == [id |-> Unbound]

\* line 197
NewJob(name, id) == [video |-> [dir |-> "inbox", name |-> name], alert_id |-> id]

\* the name under which the job file of an alert id is now in the queue
JobFileOf(id) == CHOOSE n \in DOMAIN queue : n[1] = id

\* line 235: the listing is taken once per pass
PListInbox ==
    /\ ppc = "list_inbox"
    /\ plist' = InboxListing
    /\ ppc' = "proc_next"
    /\ hist' = [hist EXCEPT !.listed = DOMAIN inbox, !.raised = {}]
    /\ UNCHANGED <<source, dirVars, seen, scan, cur, size1, waited, palert,
                   workVars, nextId, crashes, gate, http>>

\* line 272: the pass is over; time.sleep(1.0) and the next scan
PPassEnd ==
    /\ ppc = "proc_next"
    /\ plist = <<>>
    /\ ppc' = "scan_begin"
    /\ UNCHANGED <<source, dirVars, seen, scan, cur, size1, waited, plist, palert,
                   workVars, nextId, crashes, gate, http, hist>>

PProcNext ==
    /\ ppc = "proc_next"
    /\ plist # <<>>
    /\ cur' = [dir |-> "inbox", name |-> Head(plist)]
    /\ plist' = Tail(plist)
    /\ ppc' = "detect"
    /\ UNCHANGED <<source, dirVars, seen, scan, size1, waited, palert,
                   workVars, nextId, crashes, gate, http, hist>>

\* lines 238-241: detection finds too little for an alert
PDetectQuiet ==
    /\ ppc = "detect"
    /\ ~AlertRule(detect_hits(inbox[cur.name]))
    /\ ppc' = "relocate"
    /\ UNCHANGED <<source, dirVars, seen, scan, cur, size1, waited, plist, palert,
                   workVars, nextId, crashes, gate, http, hist>>

\* lines 238-244: the alert rule holds; a fresh id; save_jpeg
PDetectAlert ==
    /\ ppc = "detect"
    /\ AlertRule(detect_hits(inbox[cur.name]))
    /\ nextId <= MaxAlerts
    /\ \E t \in Times :
         palert' = NewAlert(AlertId(nextId), cur.name, detect_hits(inbox[cur.name]), t)
    /\ nextId' = nextId + 1
    /\ media' = media \cup {<<AlertId(nextId), "jpg">>}
    /\ ppc' = "enq_open"
    /\ hist' = [hist EXCEPT !.made = Put(@, AlertId(nextId), cur.name)]
    /\ UNCHANGED <<source, inbox, processed, alerts, queue, seen, scan, cur, size1,
                   waited, plist, workVars, crashes, gate, http>>

\* line 263: detection (an external collaborator) raises
PDetectRaise ==
    /\ ppc = "detect"
    /\ ppc' = "relocate_err"
    /\ hist' = [hist EXCEPT !.raised = @ \cup {cur.name}]
    /\ UNCHANGED <<source, dirVars, seen, scan, cur, size1, waited, plist, palert,
                   workVars, nextId, crashes, gate, http>>

\* enqueue_gif line 198: write_text opens <id>.json for writing
PEnqOpen ==
    /\ ppc = "enq_open"
    /\ queue' = Put(queue, <<palert.id, "json">>, Empty)
    /\ ppc' = "enq_write"
    /\ UNCHANGED <<source, inbox, processed, alerts, media, seen, scan, cur, size1,
                   waited, plist, palert, workVars, nextId, crashes, gate, http, hist>>

\* enqueue_gif line 198: the payload reaches the open file, whatever its
\* name has become
PEnqWrite ==
    /\ ppc = "enq_write"
    /\ queue' = Put(queue, JobFileOf(palert.id), NewJob(cur.name, palert.id))
    /\ ppc' = "alert_open"
    /\ UNCHANGED <<source, inbox, processed, alerts, media, seen, scan, cur, size1,
                   waited, plist, palert, workVars, nextId, crashes, gate, http, hist>>

\* write_alert line 204: write_text opens <id>.json for writing
PAlertOpen ==
    /\ ppc = "alert_open"
    /\ alerts' = Put(alerts, palert.id, Empty)
    /\ ppc' = "alert_write"
    /\ UNCHANGED <<source, inbox, processed, queue, media, seen, scan, cur, size1,
                   waited, plist, palert, workVars, nextId, crashes, gate, http, hist>>

\* write_alert line 204: the document is written
PAlertWrite ==
    /\ ppc = "alert_write"
    /\ alerts' = Put(alerts, palert.id, palert)
    /\ ppc' = "relocate"
    /\ hist' = [hist EXCEPT !.created = Put(@, palert.id, palert),
                            !.written = Put(@, palert.id, <<palert.status>>)]
    /\ UNCHANGED <<source, inbox, processed, queue, media, seen, scan, cur, size1,
                   waited, plist, palert, workVars, nextId, crashes, gate, http>>

\* lines 260-262: the clip goes to the processed-archive under its own name
PRelocate ==
    /\ ppc = "relocate"
    /\ processed' = Put(processed, cur.name, inbox[cur.name])
    /\ inbox' = Remove(inbox, cur.name)
    /\ ppc' = "proc_next"
    /\ palert' = NoAlert
    /\ UNCHANGED <<source, alerts, queue, media, seen, scan, cur, size1, waited,
                   plist, workVars, nextId, crashes, gate, http, hist>>

\* lines 263-270: on an exception the clip goes to error_<name>
PRelocateErr ==
    /\ ppc = "relocate_err"
    /\ processed' = Put(processed, ErrorName(cur.name), inbox[cur.name])
    /\ inbox' = Remove(inbox, cur.name)
    /\ ppc' = "proc_next"
    /\ palert' = NoAlert
    /\ UNCHANGED <<source, alerts, queue, media, seen, scan, cur, size1, waited,
                   plist, workVars, nextId, crashes, gate, http, hist>>

\* the processor process is killed and started again: its locals are lost
PCrash ==
    /\ ppc # "start"
    /\ crashes < MaxCrashes
    /\ crashes' = crashes + 1
    /\ ppc' = "start"
    /\ seen' = {}
    /\ scan' = <<>>
    /\ cur' = NoPath
    /\ size1' = 0
    /\ waited' = 0
    /\ plist' = <<>>
    /\ palert' = NoAlert
    /\ hist' = [hist EXCEPT !.c8 =
                  [c \in Source |-> IF @[c] \in {"scanning", "scanned"} THEN "closed" ELSE @[c]],
                            !.listed = {}, !.raised = {}]
    /\ UNCHANGED <<source, dirVars, workVars, nextId, gate, http>>

----------------------------------------------------------------------------
(* gif_worker.py *)

\* GIF_QUEUE_DIR.glob("*.json"): the names whose last suffix is .json
Pending == {n \in DOMAIN queue : n[Len(n)] = "json"}

\* st_mtime of a job file: enqueue_gif writes the job files one after the
\* other, so their modification times are ordered as their ids were handed out
Mtime(n) == CHOOSE k \in 1..4 : AlertId(k) = n[1]

RECURSIVE SortedByMtime(_)
SortedByMtime(S) ==
    IF S = {} THEN <<>>
    ELSE LET m == CHOOSE x \in S : \A y \in S : Mtime(x) <= Mtime(y)
         IN <<m>> \o SortedByMtime(S \ {m})

\* a claim that does not depend on the job file being there
ClaimWinsAlways(job_file) == TRUE

\* lines 108-110: job_file.replace(claimed) succeeds iff job_file is there
ClaimWins(job_file) == job_file \in DOMAIN queue

\* line 108
ClaimedName(job_file) == with_suffix(job_file, <<"json", "processing">>)

\* lines 140 and 149
DoneName(claimed) == with_suffix(claimed, <<"json", "done">>)

\* an update that puts the status back to queued
UpdatedAlertStatusReset(alert, status, updates) == [alert EXCEPT !.status = "queued"]

\* an update that rebuilds the record without its detections
UpdatedAlertRebuilt(alert, status, updates) == [alert EXCEPT !.hits = <<>>, !.score = 0]

\* update_alert_status lines 80-81: alert.update(updates); the status
\* argument is not among the updates
UpdatedAlert(alert, status, updates) ==
    [k \in DOMAIN alert \cup DOMAIN updates |->
        IF k \in DOMAIN updates THEN updates[k] ELSE alert[k]]

\* resolve_video_path lines 38-44
resolve_video_path(video) ==
    IF video.name \in DOMAIN inbox THEN video
    ELSE [dir |-> "processed", name |-> video.name]

\* the statuses written to an alert file so far, in order
Written(id) == IF id \in DOMAIN hist.written THEN hist.written[id] ELSE <<>>

\* lines 92-103: the listing; an empty one sleeps and lists again
WGlob(w) ==
    /\ wpc[w] = "glob"
    /\ Pending # {}
    /\ wjobs' = [wjobs EXCEPT ![w] = SortedByMtime(Pending)]
    /\ wpc' = [wpc EXCEPT ![w] = "stat"]
    /\ UNCHANGED <<source, dirVars, procVars, wclaimed, walert_id, wdoc,
                   nextId, crashes, gate, http, hist>>

\* lines 96-99: the sort key stats every listed file
WStat(w) ==
    /\ wpc[w] = "stat"
    /\ wpc' = [wpc EXCEPT ![w] =
                 IF \A i \in 1..Len(wjobs[w]) : wjobs[w][i] \in DOMAIN queue
                 THEN "claim" ELSE "dead"]
    /\ UNCHANGED <<source, dirVars, procVars, wjobs, wclaimed, walert_id, wdoc,
                   nextId, crashes, gate, http, hist>>

\* lines 105-110: the claiming rename wins
WClaim(w) ==
    /\ wpc[w] = "claim"
    /\ ClaimWins(wjobs[w][1])
    /\ queue' = IF wjobs[w][1] \in DOMAIN queue
                THEN Rename(queue, wjobs[w][1], ClaimedName(wjobs[w][1]))
                ELSE queue
    /\ wclaimed' = [wclaimed EXCEPT ![w] = ClaimedName(wjobs[w][1])]
    /\ wpc' = [wpc EXCEPT ![w] = "load"]
    /\ UNCHANGED <<source, inbox, processed, alerts, media, procVars, wjobs,
                   walert_id, wdoc, nextId, crashes, gate, http, hist>>

\* lines 111-112: FileNotFoundError, the job is skipped
WClaimLost(w) ==
    /\ wpc[w] = "claim"
    /\ ~ClaimWins(wjobs[w][1])
    /\ wpc' = [wpc EXCEPT ![w] = "glob"]
    /\ hist' = [hist EXCEPT !.lost = @ \cup {wjobs[w][1]}]
    /\ UNCHANGED <<source, dirVars, procVars, wjobs, wclaimed, walert_id, wdoc,
                   nextId, crashes, gate, http>>

\* line 119: load_json(claimed) raises on a job file with no content yet;
\* alert_id keeps whatever it held
WLoadFails(w) ==
    /\ wpc[w] = "load"
    /\ queue[wclaimed[w]] = Empty
    /\ wpc' = [wpc EXCEPT ![w] = "fail"]
    /\ hist' = [hist EXCEPT !.unread = @ \cup {wclaimed[w]}]
    /\ UNCHANGED <<source, dirVars, procVars, wjobs, wclaimed, walert_id, wdoc,
                   nextId, crashes, gate, http>>

\* lines 119-129: the job is read, the path resolved, and video_path.exist()
\* raises AttributeError (a Path has no such attribute): every job that can
\* be read ends in the except branch; lines 130-143 are never reached
WLoad(w) ==
    /\ wpc[w] = "load"
    /\ queue[wclaimed[w]] # Empty
    /\ walert_id' = [walert_id EXCEPT ![w] = queue[wclaimed[w]].alert_id]
    /\ wpc' = [wpc EXCEPT ![w] = "fail"]
    /\ UNCHANGED <<source, dirVars, procVars, wjobs, wclaimed, wdoc,
                   nextId, crashes, gate, http, hist>>

\* line 147 with alert_id never assigned: UnboundLocalError leaves main()
WFailUnbound(w) ==
    /\ wpc[w] = "fail"
    /\ walert_id[w] = Unbound
    /\ wpc' = [wpc EXCEPT ![w] = "dead"]
    /\ UNCHANGED <<source, dirVars, procVars, wjobs, wclaimed, walert_id, wdoc,
                   nextId, crashes, gate, http, hist>>

\* update_alert_status lines 76-78: no alert file, nothing to do
WFailNoAlert(w) ==
    /\ wpc[w] = "fail"
    /\ walert_id[w] # Unbound
    /\ walert_id[w] \notin DOMAIN alerts
    /\ wpc' = [wpc EXCEPT ![w] = "done"]
    /\ hist' = [hist EXCEPT !.early = @ \cup {walert_id[w]}]
    /\ UNCHANGED <<source, dirVars, procVars, wjobs, wclaimed, walert_id, wdoc,
                   nextId, crashes, gate, http>>

\* update_alert_status line 80: load_json raises on an alert file with no
\* content yet; raised inside the except branch, it leaves main()
WFailAlertEmpty(w) ==
    /\ wpc[w] = "fail"
    /\ walert_id[w] \in DOMAIN alerts
    /\ alerts[walert_id[w]] = Empty
    /\ wpc' = [wpc EXCEPT ![w] = "dead"]
    /\ UNCHANGED <<source, dirVars, procVars, wjobs, wclaimed, walert_id, wdoc,
                   nextId, crashes, gate, http, hist>>

\* update_alert_status lines 80-81: the document is read and updated in memory
WFailRead(w) ==
    /\ wpc[w] = "fail"
    /\ walert_id[w] \in DOMAIN alerts
    /\ alerts[walert_id[w]] # Empty
    /\ wdoc' = [wdoc EXCEPT ![w] =
                   UpdatedAlert(alerts[walert_id[w]], "gif_failed", EmptyDir)]
    /\ wpc' = [wpc EXCEPT ![w] = "save_open"]
    /\ UNCHANGED <<source, dirVars, procVars, wjobs, wclaimed, walert_id,
                   nextId, crashes, gate, http, hist>>

\* save_json line 73: write_text opens the alert file for writing
WSaveOpen(w) ==
    /\ wpc[w] = "save_open"
    /\ alerts' = Put(alerts, walert_id[w], Empty)
    /\ wpc' = [wpc EXCEPT ![w] = "save_write"]
    /\ UNCHANGED <<source, inbox, processed, queue, media, procVars, wjobs,
                   wclaimed, walert_id, wdoc, nextId, crashes, gate, http, hist>>

\* save_json line 73: the document is written
WSaveWrite(w) ==
    /\ wpc[w] = "save_write"
    /\ alerts' = Put(alerts, walert_id[w], wdoc[w])
    /\ wpc' = [wpc EXCEPT ![w] = "done"]
    /\ hist' = [hist EXCEPT !.updated = @ \cup {<<walert_id[w], wclaimed[w]>>},
                            !.written = Put(@, walert_id[w],
                                            Append(Written(walert_id[w]), wdoc[w].status))]
    /\ UNCHANGED <<source, inbox, processed, queue, media, procVars, wjobs,
                   wclaimed, walert_id, wdoc, nextId, crashes, gate, http>>

\* lines 149-153: the claimed file gets its terminal name; time.sleep(0.1)
WDone(w) ==
    /\ wpc[w] = "done"
    /\ queue' = Rename(queue, wclaimed[w], DoneName(wclaimed[w]))
    /\ wpc' = [wpc EXCEPT ![w] = "glob"]
    /\ UNCHANGED <<source, inbox, processed, alerts, media, procVars, wjobs,
                   wclaimed, walert_id, wdoc, nextId, crashes, gate, http, hist>>

\* a worker process is killed and started again: its locals are lost, the
\* queue and the alert files stay as they are
WCrash(w) ==
    /\ crashes < MaxCrashes
    /\ crashes' = crashes + 1
    /\ wpc' = [wpc EXCEPT ![w] = "glob"]
    /\ wjobs' = [wjobs EXCEPT ![w] = <<>>]
    /\ wclaimed' = [wclaimed EXCEPT ![w] = <<>>]
    /\ walert_id' = [walert_id EXCEPT ![w] = Unbound]
    /\ wdoc' = [wdoc EXCEPT ![w] = NoAlert]
    /\ hist' = [hist EXCEPT !.orphaned =
                  IF wpc[w] \in {"load", "fail", "save_open", "save_write", "done"}
                  THEN @ \cup {wclaimed[w]} ELSE @]
    /\ UNCHANGED <<source, dirVars, procVars, nextId, gate, http>>

----------------------------------------------------------------------------
(* file_is_stable called on its own, on a file that an outside writer may  *)
(* grow, truncate, remove or put back between any two reads                *)

MaxStable == 4     \* stable_seconds ranges over 0..MaxStable
MaxPoll   == 2     \* poll_seconds ranges over 1..MaxPoll

FileStates == {Missing} \cup (0..MaxSize)

GEnv ==
    /\ gate.pc \in {"first", "poll"}
    /\ \E f \in FileStates \ {gate.file} : gate' = [gate EXCEPT !.file = f]
    /\ UNCHANGED <<source, dirVars, procVars, workVars, nextId, crashes, hist, http>>

GReturn(g, outcome) ==
    IF outcome = "poll" THEN [g EXCEPT !.pc = "poll"]
    ELSE [g EXCEPT !.pc = "returned", !.result = outcome]

\* lines 65-70
GFirst ==
    /\ gate.pc = "first"
    /\ gate' = GReturn([gate EXCEPT !.size1 = gate.file, !.waited = 0,
                                    !.obs = <<gate.file>>],
                       GateAfterFirst(gate.file, gate.stable))
    /\ UNCHANGED <<source, dirVars, procVars, workVars, nextId, crashes, hist, http>>

\* lines 71-76 and the rest of the loop
GPoll ==
    /\ gate.pc = "poll"
    /\ gate' = GReturn([gate EXCEPT !.waited = AfterSleep(gate.waited, gate.poll),
                                    !.obs = Append(gate.obs, gate.file)],
                       GateAfterPoll(gate.size1, gate.file,
                                     AfterSleep(gate.waited, gate.poll), gate.stable))
    /\ UNCHANGED <<source, dirVars, procVars, workVars, nextId, crashes, hist, http>>

----------------------------------------------------------------------------
(* ui_app.py: the dashboard's HTTP Basic protection.  A string is a       *)
(* sequence of tokens, so that Python's "x in y" on two strings (a         *)
(* substring test) can be computed.                                        *)

\* Python's a in b for two strings
IsSubstring(a, b) ==
    \E i \in 0..(Len(b) - Len(a)) : SubSeq(b, i + 1, i + Len(a)) = a

Healthz == <<"/", "health", "z">>

\* the paths requested
Paths ==
    {Healthz, <<"/">>, <<"/", "health">>, <<"/", "api", "/", "alerts">>,
     <<"/", "health", "z", "/">>, <<"/", "media", "/", "x.gif">>}

Users == {"", "admin", "eve"}
Passwords == {"", "s3cret", "guess"}

\* the Authorization header of a request: absent, empty, one that
\* _parse_basic_auth cannot parse, or Basic base64(user:pw)
Headers ==
    {[kind |-> k, user |-> "", pw |-> ""] : k \in {"absent", "empty", "malformed"}}
    \cup {[kind |-> "basic", user |-> u, pw |-> q] : u \in Users, q \in Passwords}

\* line 55: hmac.compare_digest(time_a.encode(), time_a.encode())
constant_time_equal(time_a, time_b) == time_a = time_a

\* line 74: request.url.path in ("/healthz"), the right side being a string
HealthExempt(path) == IsSubstring(path, Healthz)

\* lines 58-68: None (FALSE here) unless the header is Basic base64(user:pw)
parse_basic_auth(header) == header.kind = "basic"

\* require_basic_auth, lines 72-109: 200 stands for call_next(request)
require_basic_auth(path, header, user, pass) ==
    IF HealthExempt(path) THEN 200
    ELSE IF pass = "" THEN 200
    ELSE IF header.kind \in {"absent", "empty"} THEN 401
    ELSE IF ~parse_basic_auth(header) THEN 401
    ELSE IF ~(constant_time_equal(header.user, user)
              /\ constant_time_equal(header.pw, pass)) THEN 401
    ELSE 200

HttpIdle ==
    [pc |-> "idle", user |-> "", pass |-> "", path |-> <<>>,
     header |-> [kind |-> "absent", user |-> "", pw |-> ""], status |-> 0]

\* a request arrives
HRequest ==
    /\ http.pc \in {"idle", "answered"}
    /\ \E p \in Paths, h \in Headers :
         http' = [http EXCEPT !.pc = "request", !.path = p, !.header = h, !.status = 0]
    /\ UNCHANGED <<source, dirVars, procVars, workVars, nextId, crashes, gate, hist>>

\* the middleware answers it
HRespond ==
    /\ http.pc = "request"
    /\ http' = [http EXCEPT !.pc = "answered",
                             !.status = require_basic_auth(http.path, http.header,
                                                           http.user, http.pass)]
    /\ UNCHANGED <<source, dirVars, procVars, workVars, nextId, crashes, gate, hist>>

----------------------------------------------------------------------------
(* Specifications *)

HistInit ==
    [c8        |-> [c \in Source |->
                      IF c \in DOMAIN source /\ source[c].writing THEN "open" ELSE "closed"],
     ingested  |-> {},
     dedup     |-> {},
     overwrote |-> FALSE,
     created   |-> EmptyDir,
     written   |-> EmptyDir,
     lost      |-> {},
     updated   |-> {},
     listed    |-> {},
     raised    |-> {},
     made      |-> EmptyDir,
     orphaned  |-> {},
     unread    |-> {},
     early     |-> {}]

\* tree is the source tree; its clips in writing are being written by the
\* car, the others are complete; the directories are empty; pool is the set
\* of artifact worker processes
Common(pool, tree, writing) ==
    /\ source = [c \in tree |->
                   IF c \in writing THEN [size |-> 0, writing |-> TRUE]
                   ELSE [size |-> 1, writing |-> FALSE]]
    /\ inbox = EmptyDir
    /\ processed = EmptyDir
    /\ alerts = EmptyDir
    /\ queue = EmptyDir
    /\ media = {}
    /\ ppc = "start"
    /\ seen = {}
    /\ scan = <<>>
    /\ cur = NoPath
    /\ size1 = 0
    /\ waited = 0
    /\ plist = <<>>
    /\ palert = NoAlert
    /\ nextId = 1
    /\ crashes = 0
    /\ wpc = [w \in pool |-> "glob"]
    /\ wjobs = [w \in pool |-> <<>>]
    /\ wclaimed = [w \in pool |-> <<>>]
    /\ walert_id = [w \in pool |-> Unbound]
    /\ wdoc = [w \in pool |-> NoAlert]
    /\ hist = HistInit

\* The two services with two artifact workers on the one queue, over a
\* source tree whose clips are all complete.
Init == Common({"w1", "w2"}, Source, {}) /\ gate = GateIdle /\ http = HttpIdle

Writer == \E c \in DOMAIN source : WriterGrow(c) \/ WriterClose(c)

Processor ==
    \/ PStart \/ PScanBegin \/ PScanEnd \/ PSkipSeen \/ PSkipHidden \/ PConsider
    \/ PGateFirst \/ PGatePoll \/ PCopySkip \/ PCopyBegin \/ PCopyData \/ PCopyRename
    \/ PListInbox \/ PPassEnd \/ PProcNext \/ PDetectQuiet \/ PDetectAlert
    \/ PDetectRaise \/ PEnqOpen \/ PEnqWrite \/ PAlertOpen \/ PAlertWrite
    \/ PRelocate \/ PRelocateErr

Worker(w) ==
    \/ WGlob(w) \/ WStat(w) \/ WClaim(w) \/ WClaimLost(w) \/ WLoadFails(w) \/ WLoad(w)
    \/ WFailUnbound(w) \/ WFailNoAlert(w) \/ WFailAlertEmpty(w) \/ WFailRead(w)
    \/ WSaveOpen(w) \/ WSaveWrite(w) \/ WDone(w)

Next == Processor \/ (\E w \in DOMAIN wpc : Worker(w))

Spec == Init /\ [][Next]_vars

\* The processor service on its own, the car still writing clip a, the
\* process killed and started again at any point (the workers never touch
\* the source tree, intake or the archive).
CrashInit == Common({}, {ClipA, ClipDot}, {ClipA}) /\ gate = GateIdle /\ http = HttpIdle

CrashNext == Writer \/ Processor \/ PCrash

CrashSpec == CrashInit /\ [][CrashNext]_vars

\* Both services over a source tree that is complete, a worker killed and
\* started again at any point; the loops keep running.
RestartInit ==
    Common({"w1", "w2"}, {ClipDot, ClipB, ClipB2, ClipC}, {}) /\ gate = GateIdle /\ http = HttpIdle

RestartNext ==
    \/ Processor
    \/ \E w \in DOMAIN wpc : Worker(w) \/ WCrash(w)

RestartSpec ==
    /\ RestartInit
    /\ [][RestartNext]_vars
    /\ WF_vars(Processor)
    /\ \A w \in {"w1", "w2"} : WF_vars(Worker(w))

GateInit ==
    /\ Common({}, {}, {})
    /\ http = HttpIdle
    /\ \E s \in 0..MaxStable, p \in 1..MaxPoll, f \in FileStates :
         gate = [GateIdle EXCEPT !.pc = "first", !.stable = s, !.poll = p, !.file = f]

\* The dashboard with DASHBOARD_USER and DASHBOARD_PASS as configured in the
\* environment, answering one request after the other.
AuthInit ==
    /\ Common({}, {}, {})
    /\ gate = GateIdle
    /\ \E u \in {"", "admin"}, q \in {"", "s3cret"} :
         http = [HttpIdle EXCEPT !.user = u, !.pass = q]

AuthNext == HRequest \/ HRespond

AuthSpec == AuthInit /\ [][AuthNext]_vars

GateNext == GEnv \/ GFirst \/ GPoll

GateSpec == GateInit /\ [][GateNext]_vars

----------------------------------------------------------------------------
(* Properties *)

\* the worker is between its claiming rename and its terminal rename
Holding(w) == wpc[w] \in {"load", "fail", "save_open", "save_write", "done"}

\* the worker's iteration is over: it is back at the listing, or main() ended
IterationOver(w) == wpc[w] \in {"glob", "stat", "claim", "dead"}

\* the job file of an alert id carries a done suffix
JobDone(id) == \E n \in DOMAIN queue : n[1] = id /\ n[Len(n)] = "done"

StatusRank(st) ==
    CASE st = "queued" -> 0 [] st = "gif_queued" -> 1 [] OTHER -> 2

\* C1: claiming is exclusive. Whenever a worker attempts the claiming rename
\* of <id>.json, the attempt wins exactly when the file is still there, and
\* then no other worker holds <id>.json.processing; an attempt on a file
\* that is gone changes nothing in the queue and takes the worker back to
\* its listing, not out of its loop.
C1_ClaimExclusive ==
    [][\A w \in DOMAIN wpc :
         (wpc[w] = "claim" /\ wpc'[w] # "claim") =>
           IF wjobs[w][1] \in DOMAIN queue
           THEN /\ wpc'[w] = "load"
                /\ wjobs[w][1] \notin DOMAIN queue'
                /\ wclaimed'[w] = <<wjobs[w][1][1], "json", "processing">>
                /\ wclaimed'[w] \in DOMAIN queue'
                /\ \A v \in DOMAIN wpc \ {w} :
                     ~(Holding(v)' /\ wclaimed'[v] = wclaimed'[w])
           ELSE /\ wpc'[w] = "glob"
                /\ queue' = queue]_vars

\* C1 witness: two workers listed the same pending job; one holds it
\* claimed, the other lost the rename and is back at its listing
C1_Witness ==
    \E w, v \in DOMAIN wpc :
        /\ w # v
        /\ Holding(w)
        /\ wpc[v] = "glob"
        /\ wjobs[v] # <<>>
        /\ wjobs[v][1] \in hist.lost
        /\ wclaimed[w] = <<wjobs[v][1][1], "json", "processing">>

\* C2: every job reaches the terminal done state: once the worker iteration
\* that claimed a job is over, the job file is no longer in the claimed state.
C2_JobNeverLeftClaimed ==
    \A w \in DOMAIN wpc : IterationOver(w) => wclaimed[w] \notin DOMAIN queue

\* C3: when processing of a claimed job has failed and the worker has updated
\* the existing Alert Record of that job, the record's status is gif_failed
\* (and there is no artifact <id>.gif).
C3_FailureSetsGifFailed ==
    \A u \in hist.updated :
        (u[2][1] = u[1] /\ alerts[u[1]] # Empty) =>
            /\ alerts[u[1]].status = "gif_failed"
            /\ <<u[1], "gif">> \notin media

\* C4: for a clip with at least the minimum number of qualifying hits, once
\* its Alert Record is written and its job is done, the record's status is
\* gif_done, the artifact <id>.gif exists beside the snapshot, and the clip
\* is in the processed-archive.
C4_AlertEndsGifDone ==
    \A id \in DOMAIN hist.created :
        (JobDone(id) /\ alerts[id] # Empty) =>
            /\ alerts[id].status = "gif_done"
            /\ alerts[id].gif = <<id, "gif">>
            /\ <<id, "jpg">> \in media
            /\ <<id, "gif">> \in media

\* C5: the statuses written to an Alert Record, in the order of the writes,
\* never step backwards along queued -> gif_queued -> {gif_done, gif_failed},
\* and nothing different is written after gif_done or gif_failed.
C5_StatusMonotone ==
    \A id \in DOMAIN hist.written :
        \A i, j \in 1..Len(hist.written[id]) :
            i < j =>
              /\ StatusRank(hist.written[id][i]) <= StatusRank(hist.written[id][j])
              /\ hist.written[id][i] \in {"gif_done", "gif_failed"}
                    => hist.written[id][j] = hist.written[id][i]

\* C5 witness: a worker has written an Alert Record after its creation
C5_Witness == \E id \in DOMAIN hist.written : Len(hist.written[id]) >= 2

\* C6: whatever is in an Alert Record's file after its creation has the id,
\* timestamp, source_file, hits and score (and snapshot name) the Intake
\* Processor wrote.
C6_FieldsImmutable ==
    \A id \in DOMAIN hist.created :
        alerts[id] # Empty =>
            /\ alerts[id].id = hist.created[id].id
            /\ alerts[id].timestamp = hist.created[id].timestamp
            /\ alerts[id].source_file = hist.created[id].source_file
            /\ alerts[id].hits = hist.created[id].hits
            /\ alerts[id].score = hist.created[id].score
            /\ alerts[id].jpeg = hist.created[id].jpeg

\* C6 witness: a worker's update of an Alert Record has been written
C6_Witness == \E u \in hist.updated : alerts[u[1]] # Empty

\* C7: ingestion never publishes a clip over a file that is already in
\* intake under that name, also when the seen set was lost by a restart, and
\* intake never holds a second copy of a clip beside the published one.
C7_IngestIdempotent ==
    /\ ~hist.overwrote
    /\ \A n \in DOMAIN inbox : n[1] = ".tmp_" => Tail(n) \notin DOMAIN inbox

\* C7 witness: after a restart the scan met a clip that is already in intake
\* and left the file alone
C7_Witness ==
    /\ crashes > 0
    /\ ClipA \in hist.dedup
    /\ <<"a">> \in DOMAIN inbox
    /\ ppc = "list_inbox"

\* C8: when a scan that began after a clip's writer had stopped is over, in
\* the processor that ran it, the clip has been copied into intake (or it is
\* a dotfile, or is in intake already).
C8_StableClipIngested ==
    \A c \in DOMAIN source :
        (hist.c8[c] = "scanned" /\ ~IsHidden(c.name)) =>
            c \in hist.ingested \cup hist.dedup

\* C9: a file in intake under a final clip name is a complete copy of the
\* source clip of that name.
C9_NoPartialUnderFinalName ==
    \A n \in DOMAIN inbox :
        n[1] # ".tmp_" => (inbox[n].whole /\ inbox[n].src.name = n)

\* C9 witness: the processor was killed in the middle of a copy; the partial
\* file is in intake when the next pass lists it
C9_Witness ==
    /\ crashes > 0
    /\ ppc = "proc_next"
    /\ \E n \in DOMAIN inbox : ~inbox[n].whole

\* the file was there at every read and its size never differed from the first
ObsStable(obs) == \A i \in 1..Len(obs) : obs[i] # Missing /\ obs[i] = obs[1]

\* the re-polls cover the window and no more
WindowCovered(g) ==
    /\ (Len(g.obs) - 1) * g.poll >= g.stable
    /\ Len(g.obs) > 1 => (Len(g.obs) - 2) * g.poll < g.stable

Range(seq) == {seq[i] : i \in 1..Len(seq)}

\* C11: every clip of the pass's listing that the Intake Processor has
\* finished with is out of intake: in the processed-archive under its own
\* name when its processing completed, under error_<name> when it raised;
\* at the end of the pass that is every clip listed.
C11_ClipsRelocated ==
    ppc = "proc_next" =>
        \A n \in hist.listed \ Range(plist) :
            /\ n \notin DOMAIN inbox
            /\ IF n \in hist.raised
               THEN <<"error_">> \o n \in DOMAIN processed
               ELSE n \in DOMAIN processed

\* C11 witness: a pass is over in which one clip raised and another did not
C11_Witness ==
    /\ ppc = "proc_next"
    /\ plist = <<>>
    /\ hist.raised # {}
    /\ hist.listed \ hist.raised # {}

\* the content of the clip of that name, in intake or in the archive
ClipContent(n) == IF n \in DOMAIN inbox THEN inbox[n] ELSE processed[n]

\* the number of boxes of a clip in the allow-list with enough confidence
QualifyingHits(content) ==
    Cardinality({i \in 1..Len(FramesOf(content)) :
                    /\ FramesOf(content)[i][1] \in {0, 1, 2, 3, 4, 5, 7}
                    /\ FramesOf(content)[i][2] >= 35})

\* C12: for a clip with fewer qualifying hits than the minimum there is no
\* Alert Record, no snapshot and no job, and once the Intake Processor has
\* finished with it (without an exception) it is in the processed-archive
\* under its own name; every snapshot belongs to an alert id handed out.
C12_QuietClipNoAlert ==
    /\ \A f \in media : f[2] = "jpg" => f[1] \in DOMAIN hist.made
    /\ \A n \in DOMAIN inbox \cup DOMAIN processed :
         QualifyingHits(ClipContent(n)) < 3 =>
            /\ \A id \in DOMAIN hist.made : hist.made[id] # n
            /\ \A id \in DOMAIN alerts :
                 alerts[id] # Empty => alerts[id].source_file # n
            /\ \A j \in DOMAIN queue :
                 queue[j] # Empty => queue[j].video.name # n
            /\ (ppc = "proc_next" /\ n \in hist.listed \ (Range(plist) \cup hist.raised))
                 => n \in DOMAIN processed

\* C12 witness: the clip with one qualifying hit is in the archive, and
\* another clip of the same pass has its Alert Record
C12_Witness ==
    /\ <<"c">> \in DOMAIN processed
    /\ QualifyingHits(processed[<<"c">>]) = 1
    /\ \E id \in DOMAIN alerts : alerts[id] # Empty

\* C13: no per-item error ends a loop: a worker that holds a claimed job,
\* whatever fails while it handles the job, goes on to its next iteration
\* and never leaves main().
C13_ItemErrorKeepsLoop ==
    [][\A w \in DOMAIN wpc : Holding(w) => wpc'[w] # "dead"]_vars

\* C14: a job file left claimed by a worker that was killed reaches the done
\* state after the worker has started again.
C14_OrphanedJobReconciled ==
    \A k \in 1..4 :
        (<<AlertId(k), "json", "processing">> \in hist.orphaned)
            ~> (<<AlertId(k), "json", "done">> \in DOMAIN queue)

\* C15: with DASHBOARD_PASS set, a request is let through only if its path
\* is exactly /healthz or it carries the configured user and password;
\* every other request is answered 401.
C15_BasicAuthProtects ==
    (http.pc = "answered" /\ http.pass # "") =>
        LET ok == \/ http.path = <<"/", "health", "z">>
                  \/ /\ http.header.kind = "basic"
                     /\ http.header.user = http.user
                     /\ http.header.pw = http.pass
        IN IF ok THEN http.status = 200 ELSE http.status = 401

\* C16: no step of the ingestion stage, the Intake Processor or the Artifact
\* Worker deletes, renames or modifies a file of the source tree.
C16_SourceReadOnly == [][source' = source]_vars

\* C16 witness: a clip has been ingested, processed and archived, its job
\* handled by a worker, and the clip is still in the source tree
C16_Witness ==
    /\ ClipA \in hist.ingested
    /\ ClipA \in DOMAIN source
    /\ <<"a">> \in DOMAIN processed
    /\ \E id \in DOMAIN hist.made : hist.made[id] = <<"a">> /\ JobDone(id)

\* C17: while a worker handles a job whose payload it could not read, so
\* that the alert id was not recovered, it updates no Alert Record.
C17_UnreadJobUpdatesNothing ==
    \A u \in hist.updated : u[2] \notin hist.unread

\* C18: an Alert Record's file never exists with empty or partial content:
\* it is created complete and updated without an intermediate content.
C18_AlertNeverPartial ==
    \A id \in DOMAIN alerts : alerts[id] # Empty

\* C19: a job file is named <id>.json, <id>.json.processing or
\* <id>.json.done: the terminal rename turns the claimed file into exactly
\* <id>.json.done.
C19_DoneNameExact ==
    \A n \in DOMAIN queue :
        \/ n = <<n[1], "json">>
        \/ n = <<n[1], "json", "processing">>
        \/ n = <<n[1], "json", "done">>

\* C20: for a job whose clip was relocated from intake to the
\* processed-archive, whenever the relocation happened, the worker has found
\* and encoded the clip once the job is done: the artifact <id>.gif exists.
C20_RelocatedClipEncoded ==
    \A id \in DOMAIN hist.made :
        (JobDone(id) /\ hist.made[id] \in DOMAIN processed) =>
            <<id, "gif">> \in media

\* C21: once an alert id's Alert Record is written and its job file is done,
\* the record's status is gif_done or gif_failed, also when the worker
\* finished the job before the Intake Processor wrote the record.
C21_QuiescentStatusFinal ==
    \A id \in DOMAIN hist.created :
        (JobDone(id) /\ alerts[id] # Empty /\ id \in hist.early) =>
            alerts[id].status \in {"gif_done", "gif_failed"}

\* C22: a file in the processed-archive is never deleted or overwritten: it
\* stays there with the content it was archived with, whatever is relocated
\* later.
C22_ArchivePreserved ==
    [][\A n \in DOMAIN processed :
         n \in DOMAIN processed' /\ processed'[n] = processed[n]]_vars

\* C23: an ingestion temporary file .tmp_<name> is never among the clips an
\* intake pass lists, and is never relocated to the processed-archive.
C23_TmpNeverProcessed ==
    /\ \A n \in Range(plist) : n[1] # ".tmp_"
    /\ \A n \in DOMAIN processed :
         n[1] # ".tmp_" /\ ~(n[1] = "error_" /\ n[2] = ".tmp_")

====
